---- MODULE Spec2Model ----
(***************************************************************************)
(* CudaOutputBuffer (optix/sutils/cuda_output_buffer.py): the residency    *)
(* controller of a pixel buffer written by a CUDA kernel and displayed     *)
(* through an OpenGL pixel buffer object.                                  *)
(*                                                                         *)
(* One controller instance is modelled together with the process-wide     *)
(* state its methods touch: the current CUDA device and the OpenGL buffer  *)
(* objects.  Every method is a function from a "world" record (the slots   *)
(* of self, the CUDA state, the GL state and the outcome of the running    *)
(* call) to the world after the call; a Python exception is the field err  *)
(* and stops the statements that follow it.                                *)
(*                                                                         *)
(* Python None is the empty tuple, a value v is the tuple <<v>>.           *)
(* Dimension arguments are NumPy integer scalars (np.asscalar needs        *)
(* .item()) below 2^31, so np.int32(np.asscalar(v)) keeps their value.     *)
(***************************************************************************)
EXTENDS Integers, Sequences, FiniteSets, TLC

\* ------------------------------------------------------------------ bounds
MaxDim == 2

\* ------------------------------------------------------------ value domains
None == <<>>
Some(v) == <<v>>
Val(o) == o[1]

OK == "ok"

CudaOutputBufferType == {"CUDA_DEVICE", "GL_INTEROP", "ZERO_COPY", "CUDA_P2P"}

\* dtypes the model allocates with, and their element size in bytes
Dtypes == {"uchar4", "float4"}
itemsize(dtype) == IF dtype = "float4" THEN 16 ELSE 4

\* Arguments given to the pixel_format setter: a dtype object or a string tag.
FormatArgs == {<<"dtype", "uchar4">>, <<"dtype", "float4">>,
               <<"str", "uchar4">>, <<"str", "float4">>, <<"str", "bogus">>}

\* Arguments given to the dimension setters and to the device_idx setter.
DimArgs == 0..MaxDim
\* The machine has two devices.
Devices == {0, 1}
DeviceArgs == {None} \cup {Some(d) : d \in {-1} \cup Devices}

\* Byte patterns a buffer can hold; np.empty / cp.empty return uninitialised
\* memory, i.e. any of them.
Patterns == {"p", "q"}

\* Points of _reallocate_buffers at which the underlying library call raises.
Faults == {"none", "host", "device", "gl"}

\* Names bound at module level (imports and class statements, lines 1-18).
ModuleGlobals == {"enum", "re", "np", "cp", "glGenBuffers", "glBindBuffer",
                  "glBufferData", "GL_ARRAY_BUFFER", "GL_STREAM_DRAW",
                  "vtype_to_dtype", "CudaOutputBufferType", "CudaOutputBuffer"}

\* ------------------------------------------------------------------- state
VARIABLES
    constructed,    \* __init__ has returned an instance
    attempted,      \* the caller has called the constructor
    self,           \* the slots of the instance
    current_device, \* the device cp.cuda.Device.use() made current last
    gl,             \* OpenGL: next buffer name, GL_ARRAY_BUFFER binding, data stores
    lastOp,         \* the call made last and its outcome, when the caller logs it
    logging         \* whether the caller logs its calls

vars == <<constructed, attempted, self, current_device, gl, lastOp, logging>>

\* __init__ lines 24-25: every slot is None.
EmptySlots == [pixel_format |-> None, buffer_type |-> None,
               width |-> None, height |-> None,
               device |-> None, device_idx |-> None, stream |-> None,
               host_buffer |-> None, device_buffer |-> None, pbo |-> None]

NoStore == [size |-> 0, data |-> "p", defined |-> FALSE]
GlInit == [next |-> 1, bound |-> 0, store |-> <<>>]

\* The world a call starts in.
World(s, cur, g) ==
    [self |-> s, cur |-> cur, gl |-> g,
     err |-> OK, raisedIn |-> "", calls |-> 0, allocs |-> 0, ret |-> None]

Raise(w, e, where) == [w EXCEPT !.err = e, !.raisedIn = where]

\* A free or local name that is neither a local of the function nor a module
\* global raises NameError when evaluated.
Unbound(name, locals) == name \notin locals /\ name \notin ModuleGlobals

\* --------------------------------------------------------------- OpenGL
\* glGenBuffers(1): a buffer name never returned before, left in ret.
glGenBuffers(w) ==
    [w EXCEPT !.gl.next = @ + 1,
              !.gl.store = Append(@, NoStore),
              !.ret = Some(w.gl.next)]

glBindBuffer(w, name) == [w EXCEPT !.gl.bound = name]

\* glBufferData(GL_ARRAY_BUFFER, array, usage): the bound buffer object gets a
\* new data store of the array's size and content.
glBufferData(w, buf) ==
    IF w.gl.bound = 0 THEN Raise(w, "GLError", "glBufferData")
    ELSE [w EXCEPT !.gl.store[w.gl.bound] =
              [size |-> buf.nbytes, data |-> buf.data, defined |-> TRUE]]

\* ------------------------------------------------------------- allocation
\* np.empty(shape, dtype): shape[0]*shape[1] uninitialised elements in host
\* memory; kind records the branch of _reallocate_buffers that allocated it.
np_empty(shape, dtype, data, kind) ==
    [shape |-> shape, dtype |-> dtype,
     size |-> shape[1] * shape[2],
     nbytes |-> shape[1] * shape[2] * itemsize(dtype),
     data |-> data, kind |-> kind]

\* cp.empty given the width alone as its shape.
MutCpEmptyWidthOnly(shape, dtype, data, kind, cur) ==
    [shape |-> <<shape[1]>>, dtype |-> dtype,
     size |-> shape[1],
     nbytes |-> shape[1] * itemsize(dtype),
     data |-> data, kind |-> kind, dev |-> cur]

\* cp.empty(shape, dtype): the same on the device that is current.
cp_empty(shape, dtype, data, kind, cur) ==
    [shape |-> shape, dtype |-> dtype,
     size |-> shape[1] * shape[2],
     nbytes |-> shape[1] * shape[2] * itemsize(dtype),
     data |-> data, kind |-> kind, dev |-> cur]

\* cp.cuda.Device(value): a handle on device number value.
Device(value) == [id |-> value]

\* optix.sutils.vecmath.vtype_to_dtype: the dtype of a vector type name, None
\* for a name that resolves to nothing.
vtype_to_dtype(tag) == IF tag \in Dtypes THEN Some(tag) ELSE None

\* ------------------------------------------------------- property setters
\* An invalidation that drops the display buffer handle with the arrays.
MutInvalidateAll(s) == [s EXCEPT !.host_buffer = None, !.device_buffer = None, !.pbo = None]

Invalidate(s) == [s EXCEPT !.host_buffer = None, !.device_buffer = None]

\* The dtype a pixel_format argument stands for: a string goes through
\* vtype_to_dtype, a dtype is taken as it is.
FormatOf(value) == IF value[1] = "str" THEN vtype_to_dtype(value[2]) ELSE Some(value[2])

_set_pixel_format(w, value) ==
    LET resolved == FormatOf(value)
    IN  IF resolved = None THEN Raise(w, "InvalidFormat", "_set_pixel_format")
        ELSE IF resolved # w.self.pixel_format
             THEN [w EXCEPT !.self = Invalidate([@ EXCEPT !.pixel_format = resolved])]
             ELSE w

_set_buffer_type(w, value) ==
    IF value \notin CudaOutputBufferType
    THEN Raise(w, "AssertionError", "_set_buffer_type")
    ELSE IF Some(value) # w.self.buffer_type
         THEN [w EXCEPT !.self = Invalidate([@ EXCEPT !.buffer_type = Some(value)])]
         ELSE w

\* _set_width without its assertion.
MutSetWidthNoAssert(w, value) ==
    IF Some(value) # w.self.width
    THEN [w EXCEPT !.self = [@ EXCEPT !.width = Some(value),
                                      !.host_buffer = None, !.device_buffer = None]]
    ELSE w

\* _set_width without the comparison with the current width.
MutSetWidthAlways(w, value) ==
    IF ~(value >= 1) THEN Raise(w, "AssertionError", "_set_width")
    ELSE [w EXCEPT !.self = [@ EXCEPT !.width = Some(value),
                                      !.host_buffer = None, !.device_buffer = None]]

_set_width(w, value) ==
    IF ~(value >= 1) THEN Raise(w, "AssertionError", "_set_width")
    ELSE IF Some(value) # w.self.width
         THEN [w EXCEPT !.self = Invalidate([@ EXCEPT !.width = Some(value)])]
         ELSE w

\* _set_height that stores the new height and keeps the arrays.
MutSetHeightKeep(w, value) ==
    IF ~(value >= 1) THEN Raise(w, "AssertionError", "_set_height")
    ELSE [w EXCEPT !.self.height = Some(value)]

_set_height(w, value) ==
    IF ~(value >= 1) THEN Raise(w, "AssertionError", "_set_height")
    ELSE IF Some(value) # w.self.height
         THEN [w EXCEPT !.self = Invalidate([@ EXCEPT !.height = Some(value)])]
         ELSE w

\* What a caller sees of an object a getter returned: its type and its number.
IntObject(v) == [type |-> "int", value |-> v]
DeviceObject(d) == [type |-> "cupy.cuda.Device", value |-> d.id]

\* The getter of the device_idx property returns the slot _device.
_get_device_idx(w) ==
    [w EXCEPT !.ret = IF w.self.device = None THEN None
                      ELSE Some(DeviceObject(Val(w.self.device)))]

\* "if value is None: device_idx = 0" binds a local that is never read, so
\* None reaches "value >= 0", which raises TypeError.
_set_device_idx(w, value) ==
    IF value = None THEN Raise(w, "TypeError", "_set_device_idx")
    ELSE IF ~(Val(value) >= 0) THEN Raise(w, "AssertionError", "_set_device_idx")
    ELSE IF value # w.self.device_idx
         THEN [w EXCEPT !.self = Invalidate([@ EXCEPT !.device_idx = value,
                                                       !.device = Some(Device(Val(value)))])]
         ELSE w

\* The assert reads the name stream, which is bound nowhere.
_set_stream(w, value) ==
    IF Unbound("stream", {"self", "value"})
    THEN Raise(w, "NameError", "_set_stream")
    ELSE [w EXCEPT !.self.stream = IF value = None THEN Some("Stream.null") ELSE value]

resize(w, width, height) ==
    LET w1 == _set_width(w, width)
    IN  IF w1.err # OK THEN w1 ELSE _set_height(w1, height)

\* ----------------------------------------------------------- the methods
_make_current(w) ==
    IF w.self.device = None THEN Raise(w, "AttributeError", "_make_current")
    ELSE [w EXCEPT !.cur = Val(w.self.device).id]

\* _reallocate_buffers that leaves an existing display buffer as it is.
MutReallocateNoRefresh(w0, fault, hd, dd) ==
    LET w == [w0 EXCEPT !.calls = @ + 1]
        kind == Val(w.self.buffer_type)
        dtype == Val(w.self.pixel_format)
        shape == <<Val(w.self.width), Val(w.self.height)>>
    IN  IF w.self.buffer_type = Some("CUDA_DEVICE")
        THEN IF fault = "host" THEN Raise(w, "MemoryError", "np.empty")
             ELSE
             LET w1 == [w EXCEPT !.self.host_buffer = Some(np_empty(shape, dtype, hd, kind)),
                                 !.allocs = @ + 1]
             IN  IF fault = "device" THEN Raise(w1, "DeviceError", "cp.empty")
                 ELSE [w1 EXCEPT !.self.device_buffer =
                                     Some(cp_empty(shape, dtype, dd, kind, w1.cur)),
                                 !.allocs = @ + 1]
        ELSE Raise(w, "NotImplementedError", "_reallocate_buffers")

\* fault names the library call that raises, if any; hd and dd are the
\* contents the uninitialised host and device memory happen to hold.
_reallocate_buffers(w0, fault, hd, dd) ==
    LET w == [w0 EXCEPT !.calls = @ + 1]
        kind == Val(w.self.buffer_type)
        dtype == Val(w.self.pixel_format)
        shape == <<Val(w.self.width), Val(w.self.height)>>
    IN  IF w.self.buffer_type = Some("CUDA_DEVICE")
        THEN IF fault = "host" THEN Raise(w, "MemoryError", "np.empty")
             ELSE
             LET w1 == [w EXCEPT !.self.host_buffer = Some(np_empty(shape, dtype, hd, kind)),
                                 !.allocs = @ + 1]
             IN  IF fault = "device" THEN Raise(w1, "DeviceError", "cp.empty")
                 ELSE
                 LET w2 == [w1 EXCEPT !.self.device_buffer =
                                          Some(cp_empty(shape, dtype, dd, kind, w1.cur)),
                                      !.allocs = @ + 1]
                 IN  IF w2.self.pbo = None THEN w2
                     ELSE LET w3 == glBindBuffer(w2, Val(w2.self.pbo))
                          IN  IF fault = "gl" THEN Raise(w3, "GLError", "glBufferData")
                              ELSE glBindBuffer(glBufferData(w3, Val(w3.self.host_buffer)), 0)
        ELSE Raise(w, "NotImplementedError", "_reallocate_buffers")

\* cp.cuda.runtime.memcpy(host, device, host.nbytes, memcpyDeviceToHost)
copy_device_to_host(w) ==
    IF w.self.host_buffer = None \/ w.self.device_buffer = None
    THEN Raise(w, "AttributeError", "copy_device_to_host")
    ELSE [w EXCEPT !.self.host_buffer = Some([Val(@) EXCEPT !.data = Val(w.self.device_buffer).data])]

copy_host_to_pbo(w) ==
    LET w1 == glBindBuffer(w, Val(w.self.pbo))
    IN  IF w1.self.host_buffer = None THEN Raise(w1, "GLError", "glBufferData")
        ELSE glBindBuffer(glBufferData(w1, Val(w1.self.host_buffer)), 0)

__init__(w, buffer_type, pixel_format, width, height, device_idx, fault, hd, dd) ==
    LET w1 == _set_device_idx([w EXCEPT !.self = EmptySlots], device_idx)
        w2 == IF w1.err # OK THEN w1 ELSE _set_pixel_format(w1, pixel_format)
        w3 == IF w2.err # OK THEN w2 ELSE _set_buffer_type(w2, buffer_type)
        w4 == IF w3.err # OK THEN w3 ELSE resize(w3, width, height)
    IN  IF w4.err # OK THEN w4 ELSE _reallocate_buffers(w4, fault, hd, dd)

\* The name buffer_type is neither a local nor a module global here.
get_host_buffer(w) ==
    IF Unbound("buffer_type", {"self"})
    THEN Raise(w, "NameError", "get_host_buffer")
    ELSE copy_device_to_host(w)

\* map that reallocates on every call.
MutMapAlways(w, fault, hd, dd) ==
    LET w1 == _make_current(w)
    IN  IF w1.err # OK THEN w1 ELSE _reallocate_buffers(w1, fault, hd, dd)

map(w, fault, hd, dd) ==
    LET w1 == _make_current(w)
        w2 == IF w1.err # OK THEN w1
              ELSE IF w1.self.host_buffer = None \/ w1.self.device_buffer = None
                   THEN _reallocate_buffers(w1, fault, hd, dd)
                   ELSE w1
    IN  IF w2.err # OK THEN w2
        ELSE IF w2.self.device_buffer = None
             THEN Raise(w2, "AttributeError", "map")
             ELSE w2

unmap(w) ==
    LET w1 == _make_current(w)
    IN  IF w1.err # OK THEN w1
        ELSE IF Unbound("buffer_type", {"self"})
             THEN Raise(w1, "NameError", "unmap")
             ELSE IF w1.self.stream = None
                  THEN Raise(w1, "AttributeError", "unmap")
                  ELSE w1

\* get_pbo that uploads the host array before copying the device array into it.
MutGetPboUploadFirst(w) ==
    LET buffer_type == w.self.buffer_type
        w1 == _make_current(w)
        w2 == IF w1.err # OK THEN w1
              ELSE IF w1.self.pbo = None
                   THEN LET g == glGenBuffers(w1)
                        IN  [g EXCEPT !.self.pbo = g.ret, !.ret = None]
                   ELSE w1
        w3 == IF w2.err # OK THEN w2
              ELSE IF buffer_type = Some("CUDA_DEVICE")
                   THEN LET c == copy_host_to_pbo(w2)
                        IN  IF c.err # OK THEN c ELSE copy_device_to_host(c)
                   ELSE Raise(w2, "NotImplementedError", "get_pbo")
    IN  IF w3.err # OK THEN w3 ELSE [w3 EXCEPT !.ret = w3.self.pbo]

get_pbo(w) ==
    LET buffer_type == w.self.buffer_type
        w1 == _make_current(w)
        w2 == IF w1.err # OK THEN w1
              ELSE IF w1.self.pbo = None
                   THEN LET g == glGenBuffers(w1)
                        IN  [g EXCEPT !.self.pbo = g.ret, !.ret = None]
                   ELSE w1
        w3 == IF w2.err # OK THEN w2
              ELSE IF buffer_type = Some("CUDA_DEVICE")
                   THEN LET c == copy_device_to_host(w2)
                        IN  IF c.err # OK THEN c ELSE copy_host_to_pbo(c)
                   ELSE Raise(w2, "NotImplementedError", "get_pbo")
    IN  IF w3.err # OK THEN w3 ELSE [w3 EXCEPT !.ret = w3.self.pbo]

\* glDeleteBuffers is not among the names imported from OpenGL.GL.
delete_pbo(w) ==
    IF w.self.pbo = None THEN w
    ELSE LET w1 == glBindBuffer(w, 0)
         IN  IF Unbound("glDeleteBuffers", {"self"})
             THEN Raise(w1, "NameError", "delete_pbo")
             ELSE [w1 EXCEPT !.self.pbo = None]

\* ------------------------------------------------------------ the callers
BufferTypeArgs == CudaOutputBufferType \cup {"not_an_enum"}
StreamArgs == {None, Some("stream")}

\* What the caller sees of a call: the method, the exception it raised (or
\* ok) and where, how often it entered _reallocate_buffers, how many arrays it
\* allocated, and the value it returned.
Call(op, w) ==
    [op |-> op, err |-> w.err, raisedIn |-> w.raisedIn,
     calls |-> w.calls, allocs |-> w.allocs, ret |-> w.ret]

NoCall == Call("none", World(EmptySlots, 0, GlInit))
Log(op, w) == IF logging THEN Call(op, w) ELSE NoCall

Start == World(self, current_device, gl)

\* A call on the instance: what it did before returning or raising stays done.
Commit(op, w) ==
    /\ self' = w.self
    /\ current_device' = w.cur
    /\ gl' = w.gl
    /\ lastOp' = Log(op, w)
    /\ UNCHANGED <<constructed, attempted, logging>>

Init ==
    /\ constructed = FALSE
    /\ attempted = FALSE
    /\ self = EmptySlots
    /\ current_device = 0
    /\ gl = GlInit
    /\ lastOp = NoCall
    /\ logging = TRUE

\* The same program with a caller that keeps no log.
InitQuiet ==
    /\ constructed = FALSE
    /\ attempted = FALSE
    /\ self = EmptySlots
    /\ current_device = 0
    /\ gl = GlInit
    /\ lastOp = NoCall
    /\ logging = FALSE

\* CudaOutputBuffer(buffer_type, pixel_format, width, height, device_idx): an
\* exception leaves the caller without an instance.
ConstructCall(bt, pf, wd, ht, di, fault, hd, dd) ==
    LET w == __init__(Start, bt, pf, wd, ht, di, fault, hd, dd)
    IN  /\ ~attempted
        /\ attempted' = TRUE
        /\ constructed' = (w.err = OK)
        /\ self' = IF w.err = OK THEN w.self ELSE EmptySlots
        /\ current_device' = w.cur
        /\ gl' = w.gl
        /\ lastOp' = Log("__init__", w)
        /\ UNCHANGED logging

Construct ==
    /\ ~attempted
    /\ \E bt \in BufferTypeArgs, pf \in FormatArgs, wd \in DimArgs, ht \in DimArgs,
          di \in DeviceArgs, fault \in Faults, hd \in Patterns, dd \in Patterns :
           ConstructCall(bt, pf, wd, ht, di, fault, hd, dd)

SetPixelFormatCall(v) == Commit("set_pixel_format", _set_pixel_format(Start, v))
SetPixelFormat ==
    /\ constructed
    /\ \E v \in FormatArgs : SetPixelFormatCall(v)

SetBufferTypeCall(v) == Commit("set_buffer_type", _set_buffer_type(Start, v))
SetBufferType ==
    /\ constructed
    /\ \E v \in BufferTypeArgs : SetBufferTypeCall(v)

SetWidthCall(v) == Commit("set_width", _set_width(Start, v))
SetWidth ==
    /\ constructed
    /\ \E v \in DimArgs : SetWidthCall(v)

SetHeightCall(v) == Commit("set_height", _set_height(Start, v))
SetHeight ==
    /\ constructed
    /\ \E v \in DimArgs : SetHeightCall(v)

SetDeviceIdxCall(v) == Commit("set_device_idx", _set_device_idx(Start, v))
SetDeviceIdx ==
    /\ constructed
    /\ \E v \in DeviceArgs : SetDeviceIdxCall(v)

GetDeviceIdx ==
    /\ constructed
    /\ Commit("get_device_idx", _get_device_idx(Start))

SetStreamCall(v) == Commit("set_stream", _set_stream(Start, v))
SetStream ==
    /\ constructed
    /\ \E v \in StreamArgs : SetStreamCall(v)

ResizeCall(wd, ht) == Commit("resize", resize(Start, wd, ht))
Resize ==
    /\ constructed
    /\ \E wd \in DimArgs, ht \in DimArgs : ResizeCall(wd, ht)

GetHostBuffer ==
    /\ constructed
    /\ Commit("get_host_buffer", get_host_buffer(Start))

MapCall(fault, hd, dd) == Commit("map", map(Start, fault, hd, dd))
\* What the libraries do matters to map only when it has to reallocate.
Map ==
    /\ constructed
    /\ \E fault \in IF self.host_buffer = None \/ self.device_buffer = None
                     THEN Faults ELSE {"none"} :
          \E hd \in Patterns, dd \in Patterns : MapCall(fault, hd, dd)

Unmap ==
    /\ constructed
    /\ Commit("unmap", unmap(Start))

GetPbo ==
    /\ constructed
    /\ Commit("get_pbo", get_pbo(Start))

DeletePbo ==
    /\ constructed
    /\ Commit("delete_pbo", delete_pbo(Start))

\* The external kernel writes a pattern through the pointer map returned.
KernelWriteCall(p) ==
    /\ self.device_buffer # None
    /\ Commit("kernel_write",
              [Start EXCEPT !.self.device_buffer = Some([Val(@) EXCEPT !.data = p])])
KernelWrite ==
    /\ constructed
    /\ \E p \in Patterns : KernelWriteCall(p)

\* Other code of the process makes a device current.
ExternalUse ==
    \E d \in Devices :
        /\ current_device' = d
        /\ lastOp' = Log("external_use", Start)
        /\ UNCHANGED <<constructed, attempted, self, gl, logging>>

Next ==
    \/ Construct
    \/ SetPixelFormat
    \/ SetBufferType
    \/ SetWidth
    \/ SetHeight
    \/ SetDeviceIdx
    \/ GetDeviceIdx
    \/ SetStream
    \/ Resize
    \/ GetHostBuffer
    \/ Map
    \/ Unmap
    \/ GetPbo
    \/ DeletePbo
    \/ KernelWrite
    \/ ExternalUse

Spec == Init /\ [][Next]_vars

\* Every call, by a caller that keeps no log.
SpecQuiet == InitQuiet /\ [][Next]_vars

\* A caller that configures and maps, and never asks for a display buffer.
NextConfig ==
    \/ Construct
    \/ SetPixelFormat
    \/ SetBufferType
    \/ SetWidth
    \/ SetHeight
    \/ SetDeviceIdx
    \/ Resize
    \/ Map

SpecConfig == Init /\ [][NextConfig]_vars

NextConfigPbo == NextConfig \/ GetPbo

SpecConfigPbo == Init /\ [][NextConfigPbo]_vars

\* ------------------------------------------------------------------ claims
Unimplemented == CudaOutputBufferType \ {"CUDA_DEVICE"}
Store(h) == gl.store[h]

\* An array allocated for the current descriptor.
Describes(b) ==
    /\ b.shape = <<Val(self.width), Val(self.height)>>
    /\ b.size = Val(self.width) * Val(self.height)
    /\ b.dtype = Val(self.pixel_format)
    /\ b.kind = Val(self.buffer_type)

\* C1: whenever host_buffer or the device buffer is not None, it was allocated
\* with the current width, height and pixel_format, by the branch of the
\* current buffer type.
C1_BuffersMatchDescriptor ==
    /\ self.host_buffer # None => Describes(Val(self.host_buffer))
    /\ self.device_buffer # None => Describes(Val(self.device_buffer))

\* A display buffer was uploaded, the descriptor was changed, and a map
\* reallocated both arrays (the refresh of the display buffer failed, which
\* left its old size behind).
C1_Witness ==
    /\ self.host_buffer # None
    /\ self.device_buffer # None
    /\ self.pbo # None
    /\ Store(Val(self.pbo)).defined
    /\ Store(Val(self.pbo)).size # Val(self.host_buffer).nbytes

\* ---- what a call made in the current state does
\* An action commits the world its method returns for Start, so a statement
\* about these worlds in every reachable state is one about every step.
\* The setters and the values they can be given that are valid and differ from
\* the current value; each is the world the call leaves.
ChangingSets ==
    {_set_width(Start, v) : v \in {x \in DimArgs : x >= 1 /\ Some(x) # self.width}}
    \cup {_set_height(Start, v) : v \in {x \in DimArgs : x >= 1 /\ Some(x) # self.height}}
    \cup {_set_pixel_format(Start, v) :
            v \in {x \in FormatArgs : FormatOf(x) # None /\ FormatOf(x) # self.pixel_format}}
    \cup {_set_buffer_type(Start, v) :
            v \in {x \in CudaOutputBufferType : Some(x) # self.buffer_type}}
    \cup {_set_device_idx(Start, v) :
            v \in {x \in DeviceArgs : x # None /\ Val(x) >= 0 /\ x # self.device_idx}}

\* The same for the values that are the current value of the field.
SameValueSets ==
    {_set_width(Start, v) : v \in {x \in DimArgs : Some(x) = self.width}}
    \cup {_set_height(Start, v) : v \in {x \in DimArgs : Some(x) = self.height}}
    \cup {_set_pixel_format(Start, v) :
            v \in {x \in FormatArgs : FormatOf(x) = self.pixel_format}}
    \cup {_set_buffer_type(Start, v) :
            v \in {x \in CudaOutputBufferType : Some(x) = self.buffer_type}}
    \cup {_set_device_idx(Start, v) : v \in {x \in DeviceArgs : x = self.device_idx}}

\* map, when no library call inside it fails, and map in general.
MapsNoFault == {map(Start, "none", hd, dd) : hd \in Patterns, dd \in Patterns}
Maps == {map(Start, fault, hd, dd) : fault \in Faults, hd \in Patterns, dd \in Patterns}

StorageNull == self.host_buffer = None \/ self.device_buffer = None

\* C2 as stated: a setter given a different value leaves both arrays None, the
\* next map performs exactly one reallocation (one call of
\* _reallocate_buffers, allocating the two arrays), and a map that follows a
\* map performs none.
C2_AsStated ==
    constructed =>
        /\ \A w \in ChangingSets :
              w.err = OK /\ w.self.host_buffer = None /\ w.self.device_buffer = None
        /\ StorageNull => \A w \in MapsNoFault : w.calls = 1 /\ w.allocs = 2
        /\ lastOp.op = "map" => \A w \in MapsNoFault : w.calls = 0 /\ w.allocs = 0

\* C2, amended: a setter given a different value leaves both arrays None; a map
\* that finds an array None and returns has performed exactly one reallocation,
\* and it returns whenever the buffer type is CUDA_DEVICE and no library call
\* fails; a map that follows a map that returned reallocates nothing.
C2_InvalidateThenOneReallocation ==
    constructed =>
        /\ \A w \in ChangingSets :
              w.err = OK /\ w.self.host_buffer = None /\ w.self.device_buffer = None
        /\ StorageNull =>
              /\ \A w \in Maps : w.err = OK => w.calls = 1 /\ w.allocs = 2
              /\ self.buffer_type = Some("CUDA_DEVICE") =>
                     \A w \in MapsNoFault : w.err = OK
        /\ (lastOp.op = "map" /\ lastOp.err = OK) =>
              \A w \in Maps : w.err = OK /\ w.calls = 0 /\ w.allocs = 0

\* A map after the construction had to reallocate, and did.
C2_Witness ==
    /\ lastOp.op = "map"
    /\ lastOp.err = OK
    /\ lastOp.calls = 1
    /\ lastOp.allocs = 2
    /\ self.pbo # None

\* C3: a setter given the value the field already has returns and changes
\* nothing: the slots (arrays, device handle, display handle, descriptor),
\* the current device and the display buffers stay as they are and nothing is
\* reallocated, so the next map reallocates exactly if it would have before.
C3_SameValueIsNoOp ==
    constructed => \A w \in SameValueSets : w = Start

\* A width setter returned and the arrays and the display handle are there:
\* a new width would have left the arrays None.
C3_Witness ==
    /\ lastOp.op = "set_width"
    /\ lastOp.err = OK
    /\ self.host_buffer # None
    /\ self.device_buffer # None
    /\ self.pbo # None

\* C4: under CUDA_DEVICE a map that returns leaves both arrays allocated, the
\* device array holding width*height elements of the current pixel_format; and
\* map fails only when a library call fails.
C4_MapMaterializes ==
    (lastOp.op = "map" /\ self.buffer_type = Some("CUDA_DEVICE")) =>
        /\ lastOp.err \in {OK, "MemoryError", "DeviceError", "GLError"}
        /\ lastOp.err = OK =>
              /\ self.host_buffer # None
              /\ self.device_buffer # None
              /\ Val(self.device_buffer).size = Val(self.width) * Val(self.height)
              /\ Val(self.device_buffer).shape = <<Val(self.width), Val(self.height)>>
              /\ Val(self.device_buffer).dtype = Val(self.pixel_format)
              /\ Val(self.device_buffer).nbytes =
                     Val(self.width) * Val(self.height) * itemsize(Val(self.pixel_format))

\* A map reallocated for a descriptor that is not a square.
C4_Witness ==
    /\ lastOp.op = "map"
    /\ lastOp.err = OK
    /\ lastOp.calls = 1
    /\ self.width = Some(2)
    /\ self.height = Some(1)
    /\ self.pixel_format = Some("float4")

\* C5 as stated: with both arrays allocated under CUDA_DEVICE, get_host_buffer
\* returns and the host array then holds what the device array holds.
C5_AsStated ==
    (/\ lastOp.op = "get_host_buffer"
     /\ self.buffer_type = Some("CUDA_DEVICE")
     /\ self.host_buffer # None
     /\ self.device_buffer # None) =>
        /\ lastOp.err = OK
        /\ Val(self.host_buffer).data = Val(self.device_buffer).data

\* C6 as stated: under GL_INTEROP, ZERO_COPY and CUDA_P2P each of map, unmap,
\* get_host_buffer and get_pbo raises NotImplementedError.
C6_AsStated ==
    (/\ lastOp.op \in {"map", "unmap", "get_host_buffer", "get_pbo"}
     /\ self.buffer_type # None
     /\ Val(self.buffer_type) \in Unimplemented) =>
        lastOp.err = "NotImplementedError"

\* C7: once the display buffer handle exists, no call other than delete_pbo
\* (no setter, resize, map, unmap, get_host_buffer or get_pbo) changes it or
\* makes it None, and a get_pbo that returns, returns that handle.
C7_HandleIdentityStable ==
    [][ /\ (self.pbo # None /\ ~DeletePbo) => self'.pbo = self.pbo
        /\ (self.pbo # None /\ GetPbo /\ get_pbo(Start).err = OK)
               => get_pbo(Start).ret = self.pbo ]_vars

\* The handle was created and uploaded to, and is still there after a setter
\* has invalidated the arrays.
C7_Witness ==
    /\ self.pbo # None
    /\ Store(Val(self.pbo)).defined
    /\ self.host_buffer = None
    /\ self.device_buffer = None

\* C8 as stated: delete_pbo returns without error and leaves the handle None.
C8_AsStated ==
    lastOp.op = "delete_pbo" => lastOp.err = OK /\ self.pbo = None

\* The call raised the AssertionError of the dimension setter named, before
\* anything was allocated.
FailsInDimensionSetter(w, where) ==
    /\ w.err = "AssertionError"
    /\ w.raisedIn = where
    /\ w.calls = 0
    /\ w.allocs = 0
    /\ w.self.host_buffer \in {None, self.host_buffer}
    /\ w.self.device_buffer \in {None, self.device_buffer}

\* C9: a width or height below 1 given to a setter, to resize or to the
\* constructor makes the call fail without any allocation; the exception is the
\* AssertionError of _set_width or _set_height (for the constructor: when the
\* device index, the pixel format and the buffer type are accepted).
C9_InvalidDimensionRejected ==
    /\ constructed =>
          /\ \A v \in DimArgs : v < 1 =>
                /\ FailsInDimensionSetter(_set_width(Start, v), "_set_width")
                /\ FailsInDimensionSetter(_set_height(Start, v), "_set_height")
                /\ _set_width(Start, v).self = self
                /\ _set_height(Start, v).self = self
          /\ \A wd \in DimArgs, ht \in DimArgs : (wd < 1 \/ ht < 1) =>
                FailsInDimensionSetter(resize(Start, wd, ht),
                                       IF wd < 1 THEN "_set_width" ELSE "_set_height")
    /\ ~attempted =>
          \A bt \in BufferTypeArgs, pf \in FormatArgs, wd \in DimArgs, ht \in DimArgs,
             di \in DeviceArgs, fault \in Faults, hd \in Patterns, dd \in Patterns :
              (wd < 1 \/ ht < 1) =>
                  LET w == __init__(Start, bt, pf, wd, ht, di, fault, hd, dd)
                  IN  /\ w.err # OK
                      /\ w.calls = 0
                      /\ w.allocs = 0
                      /\ (di # None /\ Val(di) >= 0 /\ FormatOf(pf) # None
                              /\ bt \in CudaOutputBufferType) =>
                             FailsInDimensionSetter(w,
                                 IF wd < 1 THEN "_set_width" ELSE "_set_height")

\* resize was given a valid width and a height below 1.
C9_Witness ==
    /\ constructed
    /\ lastOp.op = "resize"
    /\ lastOp.err = "AssertionError"
    /\ lastOp.raisedIn = "_set_height"

\* C10 as stated: a constructor or map call whose reallocation fails leaves
\* both arrays None.
C10_AsStated ==
    (lastOp.op \in {"map", "__init__"} /\ lastOp.calls = 1 /\ lastOp.err # OK) =>
        self.host_buffer = None /\ self.device_buffer = None

\* C11 as stated: a constructor call that allocated the device array, a map, an
\* unmap, a get_pbo and a delete_pbo that bound a display buffer have made the
\* controller's own device current first, so that device is the current one
\* when the call is over, whatever was current before.
C11_AsStated ==
    (/\ constructed
     /\ \/ lastOp.op = "__init__" /\ lastOp.allocs = 2
        \/ lastOp.op \in {"map", "unmap", "get_pbo"}
        \/ lastOp.op = "delete_pbo" /\ lastOp.raisedIn = "delete_pbo") =>
        current_device = Val(self.device).id

\* C12 as stated: under CUDA_DEVICE, when a setter has left an array None, a
\* get_pbo called before any map returns the handle and leaves both arrays
\* allocated for the current descriptor.
C12_AsStated ==
    (constructed /\ self.buffer_type = Some("CUDA_DEVICE") /\ StorageNull) =>
        LET w == get_pbo(Start)
        IN  /\ w.err = OK
            /\ w.ret # None
            /\ w.self.host_buffer # None
            /\ w.self.device_buffer # None

\* C13: under CUDA_DEVICE with both arrays allocated, a get_pbo that returns
\* has copied the device array into the host array and then uploaded the host
\* array, so the host array and the data store of the returned handle both
\* hold what the device array held when get_pbo was called, and the device
\* array is as it was.
C13_ExportCopiesThenUploads ==
    (constructed /\ self.buffer_type = Some("CUDA_DEVICE") /\ ~StorageNull) =>
        LET w == get_pbo(Start)
        IN  w.err = OK =>
              /\ w.ret # None
              /\ w.ret = w.self.pbo
              /\ w.self.device_buffer = self.device_buffer
              /\ Val(w.self.host_buffer).data = Val(self.device_buffer).data
              /\ w.gl.store[Val(w.ret)].defined
              /\ w.gl.store[Val(w.ret)].data = Val(self.device_buffer).data
              /\ w.gl.store[Val(w.ret)].size = Val(w.self.host_buffer).nbytes

\* get_pbo returned under CUDA_DEVICE, and the three buffers hold the pattern
\* that only uninitialised memory can have brought.
C13_Witness ==
    /\ lastOp.op = "get_pbo"
    /\ lastOp.err = OK
    /\ self.buffer_type = Some("CUDA_DEVICE")
    /\ Val(self.device_buffer).data = "q"
    /\ Val(self.host_buffer).data = "q"
    /\ Store(Val(lastOp.ret)).data = "q"

\* C14 as stated: an instance constructed under CUDA_DEVICE whose stream was
\* never set has the null stream as its stream, not None, and unmap on it
\* synchronizes that stream and returns without error.
C14_AsStated ==
    (constructed /\ self.buffer_type = Some("CUDA_DEVICE")) =>
        /\ self.stream # None
        /\ unmap(Start).err = OK

\* C15: when the display buffer handle exists and a map has to reallocate, a map
\* that returns has kept the handle and given its data store the new host
\* array: the store holds width*height elements of the current pixel_format
\* and the host array's contents, and no buffer is left bound.
C15_ReallocationRefreshesDisplayBuffer ==
    (constructed /\ self.pbo # None /\ StorageNull) =>
        \A w \in Maps : w.err = OK =>
            /\ w.calls = 1
            /\ w.self.pbo = self.pbo
            /\ w.gl.store[Val(self.pbo)].defined
            /\ w.gl.store[Val(self.pbo)].size =
                   Val(self.width) * Val(self.height) * itemsize(Val(self.pixel_format))
            /\ w.gl.store[Val(self.pbo)].data = Val(w.self.host_buffer).data
            /\ w.gl.bound = 0

\* A map reallocated for 2 x 1 float4 pixels and the display buffer holds their
\* 32 bytes.
C15_Witness ==
    /\ lastOp.op = "map"
    /\ lastOp.err = OK
    /\ lastOp.calls = 1
    /\ self.pbo # None
    /\ Val(self.host_buffer).shape = <<2, 1>>
    /\ Store(Val(self.pbo)).defined
    /\ Store(Val(self.pbo)).size = 32

\* C16 as stated: a device array that is not None was allocated while the device
\* numbered device_idx was current, by the constructor as well as by map.
C16_AsStated ==
    self.device_buffer # None => Val(self.device_buffer).dev = Val(self.device_idx)

\* C17 as stated: a get_pbo that raises NotImplementedError leaves every slot of
\* the instance as it was; a handle that was None before the call is None
\* after it.
C17_AsStated ==
    constructed =>
        LET w == get_pbo(Start)
        IN  w.err = "NotImplementedError" =>
              /\ w.self = self
              /\ self.pbo = None => w.self.pbo = None

\* C18 as stated: a resize given a valid width that differs from the current
\* one and a height below 1 fails and leaves width, height and both arrays as
\* they were.
C18_AsStated ==
    constructed =>
        \A wd \in DimArgs, ht \in DimArgs :
            (wd >= 1 /\ Some(wd) # self.width /\ ht < 1) =>
                LET w == resize(Start, wd, ht)
                IN  /\ w.err = "AssertionError"
                    /\ w.self.width = self.width
                    /\ w.self.height = self.height
                    /\ w.self.host_buffer = self.host_buffer
                    /\ w.self.device_buffer = self.device_buffer

\* C19 as stated: reading device_idx returns the integer index that the
\* constructor or the setter stored last, not the device handle.
C19_AsStated ==
    constructed => _get_device_idx(Start).ret = Some(IntObject(Val(self.device_idx)))

====
